---- MODULE Spec2Model ----
(***************************************************************************)
(* pathsum: create_summary of src/src/pathsum_tool/main.py, the walk of a *)
(* directory tree that filters files by include/exclude rules and appends *)
(* the accepted text files to one output stream.                          *)
(*                                                                         *)
(* A string is a sequence of one-character strings: "s/a" is              *)
(* <<"s", "/", "a">>.  The platform is POSIX (os.sep = "/", normcase is   *)
(* the identity).                                                          *)
(***************************************************************************)
EXTENDS Integers, Sequences, FiniteSets, TLC

VARIABLES
    pc,                         \* Init, Walking, Finalizing, Done, Failed
    start_dir,                  \* argument start_dir
    output_filename,            \* argument output_filename
    inclusion_mode,             \* argument inclusion_mode
    include_dirs,               \* argument include_dirs (set)
    include_files,              \* argument include_files (set)
    include_patterns,           \* argument include_patterns (list)
    exclude_dirs,               \* argument exclude_dirs (set)
    exclude_files,              \* local exclude_files (set), line 96 and 108
    exclude_patterns,           \* argument exclude_patterns (list)
    caller_exclude_files,       \* the caller's exclude_files collection
    combined_exclude_patterns,  \* line 102-110
    summary_file_norm,          \* line 107
    fs,                         \* the directory tree under start_dir
    stack,                      \* directories os.walk has still to yield
    current_dir_rel,            \* directory being processed, line 142-145
    filenames,                  \* files of that directory not yet evaluated
    outfile,                    \* what has been written to the output stream
    skipped_dirs_count,
    skipped_files_count,
    processed_files_count,
    considered_by_include_count,
    excluded_count,
    log,                        \* the branch taken for each file, in order
    pruned,                     \* sub_dir_rel of every directory removed
    fails,                      \* per-file I/O failures so far
    entered,                    \* current_dir_rel of every directory yielded
    opened,                     \* open() of the output has returned a stream
    given                       \* what the caller's collections held at the call

vars == <<pc, start_dir, output_filename, inclusion_mode, include_dirs,
          include_files, include_patterns, exclude_dirs, exclude_files,
          exclude_patterns, caller_exclude_files, combined_exclude_patterns,
          summary_file_norm, fs, stack, current_dir_rel, filenames, outfile,
          skipped_dirs_count, skipped_files_count, processed_files_count,
          considered_by_include_count, excluded_count, log, pruned, fails,
          entered, opened, given>>

config == <<start_dir, output_filename, inclusion_mode, include_dirs,
            include_files, include_patterns, exclude_dirs, exclude_patterns,
            given>>

(***************************************************************************)
(* Bounds of the model.                                                    *)
(***************************************************************************)
\* most include rules, and most exclude rules, the caller passes
MaxRules == 1
\* most per-file I/O failures (read or write) the environment injects
MaxFail == 1

(***************************************************************************)
(* Strings.  The helpers are functions, so that their arguments are       *)
(* values when they are applied.                                          *)
(***************************************************************************)
Sep == "/"

Str == Seq(STRING)
StrList == Seq(Str)

StartsWith[s \in Str, p \in Str] ==
    /\ Len(p) <= Len(s)
    /\ SubSeq(s, 1, Len(p)) = p

EndsWith[s \in Str, p \in Str] ==
    /\ Len(p) <= Len(s)
    /\ SubSeq(s, Len(s) - Len(p) + 1, Len(s)) = p

\* str.rstrip('/')
rstrip[s \in Str] ==
    IF s # <<>> /\ s[Len(s)] = "/" THEN rstrip[SubSeq(s, 1, Len(s) - 1)] ELSE s

\* str.split('/'): the pieces between separators, empty pieces kept
SplitFrom[s \in Str, i \in Nat, cur \in Str] ==
    IF i > Len(s) THEN <<cur>>
    ELSE IF s[i] = Sep THEN <<cur>> \o SplitFrom[s, i + 1, <<>>]
    ELSE SplitFrom[s, i + 1, Append(cur, s[i])]

Split[s \in Str] == SplitFrom[s, 1, <<>>]

\* '/'.join(comps)
JoinSep[comps \in StrList] ==
    IF comps = <<>> THEN <<>>
    ELSE IF Len(comps) = 1 THEN comps[1]
    ELSE comps[1] \o <<Sep>> \o JoinSep[Tail(comps)]

\* the non-empty pieces of a list of pieces
NonEmpty[comps \in StrList] ==
    IF comps = <<>> THEN <<>>
    ELSE IF comps[1] = <<>> THEN NonEmpty[Tail(comps)]
    ELSE <<comps[1]>> \o NonEmpty[Tail(comps)]

\* a set as a list, in some fixed order (list(set), extend(set))
SeqOfSet[S \in SUBSET Str] ==
    IF S = {} THEN <<>>
    ELSE LET x == CHOOSE y \in S : TRUE IN <<x>> \o SeqOfSet[S \ {x}]

Range(s) == {s[i] : i \in DOMAIN s}

(***************************************************************************)
(* os.path on POSIX.                                                       *)
(***************************************************************************)
\* os.path.join(a, b)
Join[a \in Str, b \in Str] ==
    IF StartsWith[b, <<Sep>>] THEN b
    ELSE IF a = <<>> \/ EndsWith[a, <<Sep>>] THEN a \o b
    ELSE a \o <<Sep>> \o b

\* the loop of posixpath.normpath over the pieces of the path
NormComps[comps \in StrList, initial_slashes \in Nat, new_comps \in StrList] ==
    IF comps = <<>> THEN new_comps
    ELSE LET comp == comps[1]
             rest == Tail(comps)
         IN IF comp = <<>> \/ comp = <<".">>
            THEN NormComps[rest, initial_slashes, new_comps]
            ELSE IF \/ comp # <<".", ".">>
                    \/ (initial_slashes = 0 /\ new_comps = <<>>)
                    \/ (new_comps # <<>> /\ new_comps[Len(new_comps)] = <<".", ".">>)
            THEN NormComps[rest, initial_slashes, Append(new_comps, comp)]
            ELSE IF new_comps # <<>>
            THEN NormComps[rest, initial_slashes,
                           SubSeq(new_comps, 1, Len(new_comps) - 1)]
            ELSE NormComps[rest, initial_slashes, new_comps]

\* posixpath.normpath: the count of leading slashes that is kept
InitialSlashes[path \in Str] ==
    IF ~StartsWith[path, <<Sep>>] THEN 0
    ELSE IF StartsWith[path, <<Sep, Sep>>]
            /\ ~StartsWith[path, <<Sep, Sep, Sep>>] THEN 2
    ELSE 1

\* "path or dot"
OrDot[path \in Str] == IF path = <<>> THEN <<".">> ELSE path

\* posixpath.normpath once initial_slashes is known: the pieces are
\* normalised, joined, and the leading slashes put back
NormWith[path \in Str, initial_slashes \in Nat] ==
    OrDot[[i \in 1..initial_slashes |-> Sep]
          \o JoinSep[NormComps[Split[path], initial_slashes, <<>>]]]

\* os.path.normpath(path)
normpath[path \in Str] ==
    IF path = <<>> THEN <<".">> ELSE NormWith[path, InitialSlashes[path]]

\* os.getcwd(): the process runs in the filesystem root
Cwd == <<Sep>>

\* os.path.abspath(path)
abspath[path \in Str] ==
    IF StartsWith[path, <<Sep>>] THEN normpath[path] ELSE normpath[Join[Cwd, path]]

\* length of the common prefix of two lists
CommonLen[a \in StrList, b \in StrList] ==
    IF a = <<>> \/ b = <<>> \/ a[1] # b[1] THEN 0
    ELSE 1 + CommonLen[Tail(a), Tail(b)]

\* posixpath.relpath: rel_list, a ".." for each piece of start_list past
\* the common prefix of length i, then the pieces of path_list past it
RelList[start_list \in StrList, path_list \in StrList, i \in Nat] ==
    [k \in 1..(Len(start_list) - i) |-> <<".", ".">>]
    \o SubSeq(path_list, i + 1, Len(path_list))

\* posixpath.relpath: curdir if rel_list is empty, else its pieces joined
JoinOrCurdir[rel_list \in StrList] ==
    IF rel_list = <<>> THEN <<".">> ELSE JoinSep[rel_list]

\* posixpath.relpath once start_list and path_list are known
RelBetween[start_list \in StrList, path_list \in StrList] ==
    JoinOrCurdir[RelList[start_list, path_list,
                         CommonLen[start_list, path_list]]]

\* os.path.relpath(path, start)
relpath[path \in Str, start \in Str] ==
    RelBetween[NonEmpty[Split[abspath[start]]], NonEmpty[Split[abspath[path]]]]

\* normalize_path(path): path.replace(os.sep, '/')
normalize_path[path \in Str] ==
    [i \in DOMAIN path |-> IF path[i] = Sep THEN "/" ELSE path[i]]

(***************************************************************************)
(* fnmatch.fnmatch(name, pat): '*' matches any run of characters, slashes *)
(* included, '?' any one character, '[seq]' / '[!seq]' one character in / *)
(* not in seq; a '[' with no closing ']' is a literal.                    *)
(***************************************************************************)
\* index of the ']' closing the bracket whose contents start at i, 0 if none
FirstClose[pat \in Str, j \in Nat] ==
    IF j > Len(pat) THEN 0
    ELSE IF pat[j] = "]" THEN j
    ELSE FirstClose[pat, j + 1]

BracketEnd[pat \in Str, i \in Nat] ==
    LET j1 == IF i <= Len(pat) /\ pat[i] = "!" THEN i + 1 ELSE i
        j2 == IF j1 <= Len(pat) /\ pat[j1] = "]" THEN j1 + 1 ELSE j1
    IN FirstClose[pat, j2]

\* whether character c is accepted by the bracket pat[i .. k-1]
InBracket[c \in STRING, pat \in Str, i \in Nat, k \in Nat] ==
    LET negated == pat[i] = "!"
        first == IF negated THEN i + 1 ELSE i
        chars == {pat[x] : x \in first..(k - 1)}
    IN IF negated THEN c \notin chars ELSE c \in chars

MatchFrom[name \in Str, i \in Nat, pat \in Str, j \in Nat] ==
    IF j > Len(pat) THEN i > Len(name)
    ELSE IF pat[j] = "*"
    THEN \/ MatchFrom[name, i, pat, j + 1]
         \/ (i <= Len(name) /\ MatchFrom[name, i + 1, pat, j])
    ELSE IF pat[j] = "?"
    THEN i <= Len(name) /\ MatchFrom[name, i + 1, pat, j + 1]
    ELSE IF pat[j] = "[" /\ BracketEnd[pat, j + 1] # 0
    THEN LET k == BracketEnd[pat, j + 1]
         IN /\ i <= Len(name)
            /\ InBracket[name[i], pat, j + 1, k]
            /\ MatchFrom[name, i + 1, pat, k + 1]
    ELSE /\ i <= Len(name)
         /\ name[i] = pat[j]
         /\ MatchFrom[name, i + 1, pat, j + 1]

fnmatch[name \in Str, pat \in Str] == MatchFrom[name, 1, pat, 1]

(***************************************************************************)
(* The directory tree under start_dir.  A directory or file is named by   *)
(* its path relative to start_dir (the root is <<>>).  list gives what    *)
(* os.walk enumerates in each directory, in enumeration order; stat gives *)
(* what is_likely_text_file and open() find for each file: utf8 says the  *)
(* leading chunk (read(1024)) decodes as strict UTF-8.                    *)
(***************************************************************************)
P_a == <<"a">>
P_b == <<"b">>
P_c == <<"c">>
P_d == <<"d">>
P_o == <<"o">>
P_s == <<"s">>
P_t == <<"t">>
P_u == <<"u">>
P_sa == <<"s", "/", "a">>
P_so == <<"s", "/", "o">>
P_su == <<"s", "/", "u">>
P_suc == <<"s", "/", "u", "/", "c">>
P_tb == <<"t", "/", "b">>
P_td == <<"t", "/", "d">>

Tree ==
    [list |->
        (<<>> :> [dirs |-> <<P_s, P_t>>, files |-> <<P_a, P_b>>]) @@
        (P_s  :> [dirs |-> <<P_u>>,      files |-> <<P_a>>]) @@
        (P_su :> [dirs |-> <<>>,         files |-> <<P_c>>]) @@
        (P_t  :> [dirs |-> <<>>,         files |-> <<P_b, P_d>>]),
     stat |->
        (P_a   :> [kind |-> "regular", empty |-> FALSE, utf8 |-> TRUE]) @@
        (P_b   :> [kind |-> "regular", empty |-> FALSE, utf8 |-> FALSE]) @@
        (P_sa  :> [kind |-> "regular", empty |-> FALSE, utf8 |-> TRUE]) @@
        (P_suc :> [kind |-> "regular", empty |-> TRUE,  utf8 |-> TRUE]) @@
        (P_tb  :> [kind |-> "denied",  empty |-> FALSE, utf8 |-> TRUE]) @@
        (P_td  :> [kind |-> "special", empty |-> TRUE,  utf8 |-> TRUE])]

\* what open(..., 'w') leaves at the output path: an empty regular file
NewFileStat == [kind |-> "regular", empty |-> TRUE, utf8 |-> TRUE]

\* the path os.walk yields for the directory named key
DirPath(key) == IF key = <<>> THEN start_dir ELSE Join[start_dir, key]

\* the directory part and the last piece of a relative path
ParentKey(rel) ==
    LET comps == Split[rel] IN JoinSep[SubSeq(comps, 1, Len(comps) - 1)]

BaseName(rel) ==
    LET comps == Split[rel] IN comps[Len(comps)]

\* seq with x inserted so that it becomes element number pos
InsertAt(seq, pos, x) ==
    SubSeq(seq, 1, pos - 1) \o <<x>> \o SubSeq(seq, pos, Len(seq))

(***************************************************************************)
(* is_likely_text_file(file_path), on the file stat describes.            *)
(***************************************************************************)
\* is_likely_text_file that takes a zero-length file for unreadable
is_likely_text_file_EmptyIsBinary(st) ==
    st.kind = "regular" /\ ~st.empty /\ st.utf8

is_likely_text_file(st) ==
    IF st.kind = "vanished" THEN FALSE          \* getsize raises OSError
    ELSE IF st.empty THEN TRUE                  \* getsize == 0
    ELSE IF st.kind = "special" THEN FALSE      \* not os.path.isfile
    ELSE IF st.kind = "denied" THEN FALSE       \* open raises OSError
    ELSE st.utf8                                \* read(1024), strict

(***************************************************************************)
(* The filter decisions of create_summary.                                *)
(***************************************************************************)
\* ShouldConsider that tests only the relative path, never the bare name
ShouldConsider_PathOnly(file_rel_path, filename, inc_files, inc_dirs, inc_patterns) ==
    \/ file_rel_path \in inc_files
    \/ \E inc_dir \in inc_dirs : StartsWith[file_rel_path, inc_dir \o <<"/">>]
    \/ \E i \in DOMAIN inc_patterns : fnmatch[file_rel_path, inc_patterns[i]]

\* line 183-200: should_consider
ShouldConsider(file_rel_path, filename, inc_files, inc_dirs, inc_patterns) ==
    \/ file_rel_path \in inc_files
    \/ filename \in inc_files
    \/ \E inc_dir \in inc_dirs : StartsWith[file_rel_path, inc_dir \o <<"/">>]
    \/ \E i \in DOMAIN inc_patterns :
          \/ fnmatch[file_rel_path, inc_patterns[i]]
          \/ fnmatch[filename, inc_patterns[i]]

\* line 182-207: whether the file goes on to the exclusion check
PassesInclusion(file_rel_path, filename) ==
    inclusion_mode =>
        ShouldConsider(file_rel_path, filename, include_files, include_dirs,
                       include_patterns)

\* FileIsExcluded that tests only the relative path, never the bare name
FileIsExcluded_PathOnly(file_rel_path, filename, exc_files, patterns) ==
    \/ file_rel_path \in exc_files
    \/ \E i \in DOMAIN patterns : fnmatch[file_rel_path, patterns[i]]

\* line 210-219: is_excluded of a file
FileIsExcluded(file_rel_path, filename, exc_files, patterns) ==
    \/ file_rel_path \in exc_files
    \/ filename \in exc_files
    \/ \E i \in DOMAIN patterns :
          \/ fnmatch[file_rel_path, patterns[i]]
          \/ fnmatch[filename, patterns[i]]

\* DirIsExcluded that never tests the bare directory name
DirIsExcluded_NoName(sub_dir_rel, dirname, exc_dirs, patterns) ==
    \/ sub_dir_rel \in exc_dirs
    \/ \E i \in DOMAIN patterns :
          \/ fnmatch[sub_dir_rel \o <<"/">>, patterns[i]]
          \/ fnmatch[sub_dir_rel, patterns[i]]

\* line 156-166: is_excluded of a subdirectory
DirIsExcluded(sub_dir_rel, dirname, exc_dirs, patterns) ==
    \/ sub_dir_rel \in exc_dirs
    \/ \E i \in DOMAIN patterns :
          \/ fnmatch[sub_dir_rel \o <<"/">>, patterns[i]]
          \/ fnmatch[sub_dir_rel, patterns[i]]
          \/ fnmatch[dirname, rstrip[patterns[i]]]

\* line 152-153: sub_dir_rel of subdirectory dirname of directory key
SubDirRel(key, dirname) ==
    normalize_path[relpath[normpath[Join[DirPath(key), dirname]], start_dir]]

\* line 178: file_abs_path of file filename of directory key
FileAbsPath(key, filename) == normpath[Join[DirPath(key), filename]]

\* line 179: file_rel_path
FileRelPath(key, filename) ==
    normalize_path[relpath[FileAbsPath(key, filename), start_dir]]

\* line 102-104: the pattern list before the summary file is added
CombinedBase(exc_patterns, exc_files, exc_dirs) ==
    exc_patterns
    \o SeqOfSet[exc_files]
    \o SeqOfSet[{IF EndsWith[d, <<"/">>] THEN d ELSE d \o <<"/">> : d \in exc_dirs}]

\* SummaryFileNorm that forgets to join the output name to start_dir
SummaryFileNorm_StartDir(sd, out) == normalize_path[normpath[sd]]

\* line 107: summary_file_norm
SummaryFileNorm(sd, out) == normalize_path[normpath[Join[sd, out]]]

\* line 137: the path opened for writing, relative to the scanned root
OutputRel == relpath[Join[start_dir, output_filename], start_dir]

(***************************************************************************)
(* The calls the model makes: create_summary(output_filename, start_dir,  *)
(* include_dirs, include_files, include_patterns, exclude_dirs,           *)
(* exclude_files, exclude_patterns, inclusion_mode).                      *)
(***************************************************************************)
StartDirs == {<<".">>, <<"p">>}
OutputNames == {P_o, P_so}
IncDirCand == {P_s}
IncFileCand == {P_a, P_sa, P_o}
IncPatCand == {<<"*", "a">>}
ExcDirCand == {P_s, P_su, P_u}
ExcFileCand == {P_a, P_sa, P_s, <<"?">>}
ExcPatCand == {<<"*", "a">>, <<"u", "/">>, <<"?">>, <<"[", "a", "b", "]">>}

NoRules == [dirs |-> {}, files |-> {}, pats |-> {}]

\* inclusion_mode is bool(include_dirs or include_files or include_from)
\* (line 338): it is on whenever an include rule is passed, and also when
\* the include pattern file turned out empty
IncludeRules ==
    {r \in [dirs : SUBSET IncDirCand, files : SUBSET IncFileCand,
            pats : SUBSET IncPatCand] :
        Cardinality(r.dirs) + Cardinality(r.files) + Cardinality(r.pats) <= MaxRules}

ExcludeRules ==
    {r \in [dirs : SUBSET ExcDirCand, files : SUBSET ExcFileCand,
            pats : SUBSET ExcPatCand] :
        Cardinality(r.dirs) + Cardinality(r.files) + Cardinality(r.pats) <= MaxRules}

Init ==
    /\ pc = "Init"
    /\ start_dir \in StartDirs
    /\ output_filename \in OutputNames
    /\ inclusion_mode \in BOOLEAN
    /\ \E inc \in IncludeRules :
          /\ inclusion_mode \/ inc = NoRules
          /\ include_dirs = inc.dirs
          /\ include_files = inc.files
          /\ include_patterns = SeqOfSet[inc.pats]
    /\ \E exc \in ExcludeRules :
          /\ exclude_dirs = exc.dirs
          /\ exclude_files = exc.files
          /\ caller_exclude_files = exc.files
          /\ exclude_patterns = SeqOfSet[exc.pats]
    /\ combined_exclude_patterns = <<>>
    /\ summary_file_norm = <<>>
    /\ fs = Tree
    /\ stack = <<>>
    /\ current_dir_rel = <<>>
    /\ filenames = <<>>
    /\ outfile = <<>>
    /\ skipped_dirs_count = 0
    /\ skipped_files_count = 0
    /\ processed_files_count = 0
    /\ considered_by_include_count = 0
    /\ excluded_count = 0
    /\ log = <<>>
    /\ pruned = {}
    /\ fails = 0
    /\ entered = <<>>
    /\ opened = FALSE
    /\ given = [include_dirs |-> include_dirs,
                include_files |-> include_files,
                include_patterns |-> include_patterns,
                exclude_dirs |-> exclude_dirs,
                exclude_files |-> caller_exclude_files,
                exclude_patterns |-> exclude_patterns]

(***************************************************************************)
(* Line 92-117: the local collections, before the output is opened.       *)
(* exclude_files is the caller's own set whenever that set is non-empty   *)
(* ("exclude_files or set()"), so the add of line 108 reaches it.         *)
(***************************************************************************)
Prepare ==
    LET sfn == SummaryFileNorm(start_dir, output_filename)
        base == CombinedBase(exclude_patterns, exclude_files, exclude_dirs)
    IN /\ summary_file_norm' = sfn
       /\ exclude_files' = exclude_files \cup {sfn}
       /\ caller_exclude_files' =
             IF caller_exclude_files # {} THEN caller_exclude_files \cup {sfn}
             ELSE caller_exclude_files
       /\ combined_exclude_patterns' =
             IF sfn \in Range(base) THEN base ELSE Append(base, sfn)

\* line 137: open() succeeds when the directory of the output path exists;
\* it creates the file, which the walk then enumerates at some position
OpenOutput ==
    /\ pc = "Init"
    /\ Prepare
    /\ LET rel == OutputRel
           dir == ParentKey(rel)
           name == BaseName(rel)
       IN /\ dir \in DOMAIN fs.list
          /\ rel \notin DOMAIN fs.list
          /\ IF name \in Range(fs.list[dir].files)
             THEN fs' = fs
             ELSE \E pos \in 1..(Len(fs.list[dir].files) + 1) :
                     fs' = [list |-> [fs.list EXCEPT ![dir].files =
                                         InsertAt(@, pos, name)],
                            stat |-> (rel :> NewFileStat) @@ fs.stat]
    /\ pc' = "Walking"
    /\ stack' = << <<>> >>
    /\ opened' = TRUE
    /\ UNCHANGED <<entered, config, current_dir_rel, filenames, outfile,
                   skipped_dirs_count, skipped_files_count,
                   processed_files_count, considered_by_include_count,
                   excluded_count, log, pruned, fails>>

\* line 137, 246-248: open() raises IOError
OpenFail ==
    /\ pc = "Init"
    /\ Prepare
    /\ pc' = "Failed"
    /\ UNCHANGED <<entered, opened, config, fs, stack, current_dir_rel, filenames, outfile,
                   skipped_dirs_count, skipped_files_count,
                   processed_files_count, considered_by_include_count,
                   excluded_count, log, pruned, fails>>

(***************************************************************************)
(* Line 139-174: os.walk yields the next directory, top-down; the         *)
(* excluded subdirectories are removed from dirnames, and the kept ones   *)
(* are what os.walk descends into, in order, once this directory's files  *)
(* are done and before any directory that was already pending.            *)
(***************************************************************************)
\* line 151-170: the subdirectories of key that are removed
DirsToRemove(key) ==
    {dirname \in Range(fs.list[key].dirs) :
        \E sub_dir_rel \in {SubDirRel(key, dirname)} :
            DirIsExcluded(sub_dir_rel, dirname, exclude_dirs,
                          combined_exclude_patterns)}

\* KeptDirs that rebinds dirnames instead of assigning into it: os.walk
\* still descends into every subdirectory
KeptDirs_Rebound(dirnames, dirs_to_remove) == dirnames

\* line 174: dirnames[:] = [d for d in dirnames if d not in dirs_to_remove]
KeptDirs(dirnames, dirs_to_remove) ==
    SelectSeq(dirnames, LAMBDA d : d \notin dirs_to_remove)

\* line 141-145
EmptyIfDot[rel \in Str] == IF rel = <<".">> THEN <<>> ELSE rel

CurrentDirRel(key) ==
    EmptyIfDot[normalize_path[relpath[normpath[DirPath(key)], start_dir]]]

\* PushDirs that walks the pending directories first (breadth-first)
PushDirs_Breadth(kept, pending) == pending \o kept

\* os.walk, top-down: the subdirectories kept are walked, in order, before
\* anything that was pending
PushDirs(kept, pending) == kept \o pending

EnterDir ==
    /\ pc = "Walking"
    /\ filenames = <<>>
    /\ stack # <<>>
    /\ \E key \in {Head(stack)} :
       \E dirs_to_remove \in {DirsToRemove(key)} :
       \E kept \in {KeptDirs(fs.list[key].dirs, dirs_to_remove)} :
       \E rel \in {CurrentDirRel(key)} :
          /\ current_dir_rel' = rel
          /\ stack' = PushDirs([i \in DOMAIN kept |-> SubDirRel(key, kept[i])],
                               Tail(stack))
          /\ skipped_dirs_count' = skipped_dirs_count + Cardinality(dirs_to_remove)
          /\ pruned' = pruned \cup {SubDirRel(key, d) : d \in dirs_to_remove}
          /\ filenames' = fs.list[key].files
          /\ entered' = Append(entered, rel)
    /\ UNCHANGED <<opened, pc, config, exclude_files, caller_exclude_files,
                   combined_exclude_patterns, summary_file_norm, fs, outfile,
                   skipped_files_count, processed_files_count,
                   considered_by_include_count, excluded_count, log, fails>>

(***************************************************************************)
(* Line 177-244: one iteration of "for filename in filenames".            *)
(***************************************************************************)
CurFile == Head(filenames)
CurRel == FileRelPath(current_dir_rel, CurFile)
CurAbs == FileAbsPath(current_dir_rel, CurFile)

LogEntry(file_rel_path, filename, res) ==
    [path |-> file_rel_path, name |-> filename, res |-> res]

Header(file_rel_path) == [t |-> "header", path |-> file_rel_path]
Content(file_abs_path) == [t |-> "content", path |-> file_abs_path]
Separator == [t |-> "sep", path |-> <<>>]

\* line 235-237: the three writes of one entry
Entry(file_rel_path, file_abs_path) ==
    <<Header(file_rel_path), Content(file_abs_path), Separator>>

\* line 202-205: inclusion mode is on and no include rule matches
SkipNotIncluded ==
    /\ pc = "Walking"
    /\ filenames # <<>>
    /\ \E filename \in {CurFile} : \E file_rel_path \in {CurRel} :
          /\ ~PassesInclusion(file_rel_path, filename)
          /\ log' = Append(log, LogEntry(file_rel_path, filename, "notincluded"))
    /\ skipped_files_count' = skipped_files_count + 1
    /\ filenames' = Tail(filenames)
    /\ UNCHANGED <<entered, opened, pc, config, exclude_files, caller_exclude_files,
                   combined_exclude_patterns, summary_file_norm, fs, stack,
                   current_dir_rel, outfile, skipped_dirs_count,
                   processed_files_count, considered_by_include_count,
                   excluded_count, pruned, fails>>

\* line 206-207: the count of files that went past the inclusion check
ConsideredAfter ==
    IF inclusion_mode THEN considered_by_include_count + 1
    ELSE considered_by_include_count

\* SkipExcluded that counts the file as excluded but not as skipped
SkipExcluded_NotSkipped ==
    /\ pc = "Walking"
    /\ filenames # <<>>
    /\ \E filename \in {CurFile} : \E file_rel_path \in {CurRel} :
          /\ PassesInclusion(file_rel_path, filename)
          /\ FileIsExcluded(file_rel_path, filename, exclude_files,
                            combined_exclude_patterns)
          /\ log' = Append(log, LogEntry(file_rel_path, filename, "excluded"))
    /\ considered_by_include_count' = ConsideredAfter
    /\ excluded_count' = excluded_count + 1
    /\ skipped_files_count' = skipped_files_count
    /\ filenames' = Tail(filenames)
    /\ UNCHANGED <<entered, opened, pc, config, exclude_files, caller_exclude_files,
                   combined_exclude_patterns, summary_file_norm, fs, stack,
                   current_dir_rel, outfile, skipped_dirs_count,
                   processed_files_count, pruned, fails>>

\* line 221-224: an exclude rule matches
SkipExcluded ==
    /\ pc = "Walking"
    /\ filenames # <<>>
    /\ \E filename \in {CurFile} : \E file_rel_path \in {CurRel} :
          /\ PassesInclusion(file_rel_path, filename)
          /\ FileIsExcluded(file_rel_path, filename, exclude_files,
                            combined_exclude_patterns)
          /\ log' = Append(log, LogEntry(file_rel_path, filename, "excluded"))
    /\ considered_by_include_count' = ConsideredAfter
    /\ excluded_count' = excluded_count + 1
    /\ skipped_files_count' = skipped_files_count + 1
    /\ filenames' = Tail(filenames)
    /\ UNCHANGED <<entered, opened, pc, config, exclude_files, caller_exclude_files,
                   combined_exclude_patterns, summary_file_norm, fs, stack,
                   current_dir_rel, outfile, skipped_dirs_count,
                   processed_files_count, pruned, fails>>

\* the file reaches step 3 (line 226)
Accepted(file_rel_path, filename) ==
    /\ PassesInclusion(file_rel_path, filename)
    /\ ~FileIsExcluded(file_rel_path, filename, exclude_files,
                       combined_exclude_patterns)

\* line 242-244: is_likely_text_file returns False
SkipNotText ==
    /\ pc = "Walking"
    /\ filenames # <<>>
    /\ \E filename \in {CurFile} : \E file_rel_path \in {CurRel} :
          /\ Accepted(file_rel_path, filename)
          /\ ~is_likely_text_file(fs.stat[file_rel_path])
          /\ log' = Append(log, LogEntry(file_rel_path, filename, "nottext"))
    /\ considered_by_include_count' = ConsideredAfter
    /\ skipped_files_count' = skipped_files_count + 1
    /\ filenames' = Tail(filenames)
    /\ UNCHANGED <<entered, opened, pc, config, exclude_files, caller_exclude_files,
                   combined_exclude_patterns, summary_file_norm, fs, stack,
                   current_dir_rel, outfile, skipped_dirs_count,
                   processed_files_count, excluded_count, pruned, fails>>

\* line 229-238: the file is read and its entry written
WriteEntry ==
    /\ pc = "Walking"
    /\ filenames # <<>>
    /\ \E filename \in {CurFile} : \E file_rel_path \in {CurRel} :
          /\ Accepted(file_rel_path, filename)
          /\ is_likely_text_file(fs.stat[file_rel_path])
          /\ fs.stat[file_rel_path].kind \in {"regular", "special"}
          /\ outfile' = outfile \o Entry(file_rel_path, CurAbs)
          /\ log' = Append(log, LogEntry(file_rel_path, filename, "written"))
    /\ processed_files_count' = processed_files_count + 1
    /\ considered_by_include_count' = ConsideredAfter
    /\ filenames' = Tail(filenames)
    /\ UNCHANGED <<entered, opened, pc, config, exclude_files, caller_exclude_files,
                   combined_exclude_patterns, summary_file_norm, fs, stack,
                   current_dir_rel, skipped_dirs_count, skipped_files_count,
                   excluded_count, pruned, fails>>

\* line 231-237, when it raises: open(), read() or one of the three writes
\* fails; the writes that came before it (done of them) have reached the
\* stream.  A file that is not a readable regular file fails in open(); any
\* other failure is one the environment injects, at most MaxFail times.
RaisedAt(file_rel_path, done) ==
    /\ \/ /\ fs.stat[file_rel_path].kind # "regular"
          /\ done = 0
          /\ fails' = fails
       \/ /\ fs.stat[file_rel_path].kind = "regular"
          /\ fails < MaxFail
          /\ fails' = fails + 1
    /\ outfile' = outfile \o SubSeq(Entry(file_rel_path, CurAbs), 1, done)

\* EntryError with no handler around the read and the writes: the error
\* reaches the outer handler and ends the run
EntryError_Aborts ==
    /\ pc = "Walking"
    /\ filenames # <<>>
    /\ \E filename \in {CurFile} : \E file_rel_path \in {CurRel} :
          /\ Accepted(file_rel_path, filename)
          /\ is_likely_text_file(fs.stat[file_rel_path])
          /\ \E done \in 0..2 : RaisedAt(file_rel_path, done)
          /\ log' = Append(log, LogEntry(file_rel_path, filename, "error"))
    /\ skipped_files_count' = skipped_files_count + 1
    /\ considered_by_include_count' = ConsideredAfter
    /\ filenames' = Tail(filenames)
    /\ pc' = "Failed"
    /\ UNCHANGED <<entered, opened, config, exclude_files, caller_exclude_files,
                   combined_exclude_patterns, summary_file_norm, fs, stack,
                   current_dir_rel, skipped_dirs_count, processed_files_count,
                   excluded_count, pruned>>

\* EntryError whose handler forgets to count the file as skipped
EntryError_NoCount ==
    /\ pc = "Walking"
    /\ filenames # <<>>
    /\ \E filename \in {CurFile} : \E file_rel_path \in {CurRel} :
          /\ Accepted(file_rel_path, filename)
          /\ is_likely_text_file(fs.stat[file_rel_path])
          /\ \E done \in 0..2 : RaisedAt(file_rel_path, done)
          /\ log' = Append(log, LogEntry(file_rel_path, filename, "error"))
    /\ skipped_files_count' = skipped_files_count
    /\ considered_by_include_count' = ConsideredAfter
    /\ filenames' = Tail(filenames)
    /\ UNCHANGED <<entered, opened, pc, config, exclude_files, caller_exclude_files,
                   combined_exclude_patterns, summary_file_norm, fs, stack,
                   current_dir_rel, skipped_dirs_count, processed_files_count,
                   excluded_count, pruned>>

\* line 229-241: the read or a write raises and the handler counts the file
\* as skipped
EntryError ==
    /\ pc = "Walking"
    /\ filenames # <<>>
    /\ \E filename \in {CurFile} : \E file_rel_path \in {CurRel} :
          /\ Accepted(file_rel_path, filename)
          /\ is_likely_text_file(fs.stat[file_rel_path])
          /\ \E done \in 0..2 : RaisedAt(file_rel_path, done)
          /\ log' = Append(log, LogEntry(file_rel_path, filename, "error"))
    /\ skipped_files_count' = skipped_files_count + 1
    /\ considered_by_include_count' = ConsideredAfter
    /\ filenames' = Tail(filenames)
    /\ UNCHANGED <<entered, opened, pc, config, exclude_files, caller_exclude_files,
                   combined_exclude_patterns, summary_file_norm, fs, stack,
                   current_dir_rel, skipped_dirs_count, processed_files_count,
                   excluded_count, pruned>>

(***************************************************************************)
(* The end of the walk and of the "with" block.                           *)
(***************************************************************************)
\* line 139: os.walk is exhausted
EndWalk ==
    /\ pc = "Walking"
    /\ filenames = <<>>
    /\ stack = <<>>
    /\ pc' = "Finalizing"
    /\ UNCHANGED <<entered, opened, config, exclude_files, caller_exclude_files,
                   combined_exclude_patterns, summary_file_norm, fs, stack,
                   current_dir_rel, filenames, outfile, skipped_dirs_count,
                   skipped_files_count, processed_files_count,
                   considered_by_include_count, excluded_count, log, pruned,
                   fails>>

\* line 137, 250-259: the stream is flushed and closed, the totals printed
CloseOutput ==
    /\ pc = "Finalizing"
    /\ pc' = "Done"
    /\ UNCHANGED <<entered, opened, config, exclude_files, caller_exclude_files,
                   combined_exclude_patterns, summary_file_norm, fs, stack,
                   current_dir_rel, filenames, outfile, skipped_dirs_count,
                   skipped_files_count, processed_files_count,
                   considered_by_include_count, excluded_count, log, pruned,
                   fails>>

\* line 137, 246-248: the flush of close() raises IOError inside the try
CloseFail ==
    /\ pc = "Finalizing"
    /\ pc' = "Failed"
    /\ UNCHANGED <<entered, opened, config, exclude_files, caller_exclude_files,
                   combined_exclude_patterns, summary_file_norm, fs, stack,
                   current_dir_rel, filenames, outfile, skipped_dirs_count,
                   skipped_files_count, processed_files_count,
                   considered_by_include_count, excluded_count, log, pruned,
                   fails>>

Next ==
    \/ OpenOutput
    \/ OpenFail
    \/ EnterDir
    \/ SkipNotIncluded
    \/ SkipExcluded
    \/ SkipNotText
    \/ WriteEntry
    \/ EntryError
    \/ EndWalk
    \/ CloseOutput
    \/ CloseFail

Spec == Init /\ [][Next]_vars

FairSpec == Init /\ [][Next]_vars /\ WF_vars(Next)

(***************************************************************************)
(* The rules as the specification words them, over the configuration of   *)
(* the call: the formulas below compare them with what the walk did.      *)
(***************************************************************************)
\* every file of the tree, by relative path
AllFiles == DOMAIN fs.stat

\* every directory of the tree except the root, by relative path
AllDirs == DOMAIN fs.list \ {<<>>}

\* the directories a relative path lies under, the root excepted
Ancestors(path) ==
    LET comps == Split[path]
    IN {JoinSep[SubSeq(comps, 1, k)] : k \in 1..(Len(comps) - 1)}

\* the combined exclude-pattern set: the pattern list, the direct exclude
\* files, and the direct exclude directories rendered as "dir/"
RulePatterns ==
    Range(exclude_patterns) \cup exclude_files
    \cup {d \o <<"/">> : d \in exclude_dirs}

FileMatchesExclude(path) ==
    \/ path \in exclude_files
    \/ BaseName(path) \in exclude_files
    \/ \E pat \in RulePatterns :
          fnmatch[path, pat] \/ fnmatch[BaseName(path), pat]

FileMatchesInclude(path) ==
    \/ path \in include_files
    \/ BaseName(path) \in include_files
    \/ \E d \in include_dirs : StartsWith[path, d \o <<"/">>]
    \/ \E pat \in Range(include_patterns) :
          fnmatch[path, pat] \/ fnmatch[BaseName(path), pat]

DirMatchesExclude(dir, pats) ==
    \/ dir \in exclude_dirs
    \/ \E pat \in pats :
          \/ fnmatch[dir \o <<"/">>, pat]
          \/ fnmatch[dir, pat]
          \/ fnmatch[BaseName(dir), rstrip[pat]]

\* the relative paths of the headers of the output, in order
RECURSIVE HeadersOf(_)
HeadersOf(out) ==
    IF out = <<>> THEN <<>>
    ELSE IF out[1].t = "header" THEN <<out[1].path>> \o HeadersOf(Tail(out))
    ELSE HeadersOf(Tail(out))

HeaderPaths == HeadersOf(outfile)

\* the walk is over
WalkOver == pc \in {"Finalizing", "Done"} \/ (pc = "Failed" /\ opened)

\* how many complete entries of file path the output holds
EntriesOf(path) ==
    Cardinality({i \in 1..(Len(outfile) - 2) :
        /\ outfile[i] = Header(path)
        /\ outfile[i + 1].t = "content"
        /\ outfile[i + 2] = Separator})

(***************************************************************************)
(* C1.  Exclusion dominates inclusion: a file whose relative path or bare *)
(* name is a member of excludeFiles, or matches an exclude pattern, never *)
(* has a header in the output, whatever the include rules say of it.      *)
(***************************************************************************)
C1_ExclusionDominates ==
    \A i \in DOMAIN HeaderPaths : ~FileMatchesExclude(HeaderPaths[i])

\* a run is done in which a file that an include rule matches was rejected
\* by an exclude rule, and other files were written
C1_Witness ==
    /\ pc = "Done"
    /\ inclusion_mode
    /\ processed_files_count > 0
    /\ \E i \in DOMAIN log :
          /\ log[i].res = "excluded"
          /\ FileMatchesInclude(log[i].path)
          /\ FileMatchesExclude(log[i].path)

\* the file's bytes are UTF-8 text that can be read
Decodes(path) == fs.stat[path].kind = "regular" /\ fs.stat[path].utf8

\* the file passes the rules: no exclude rule matches it and, in inclusion
\* mode, an include rule does
PassesRules(path) ==
    /\ ~FileMatchesExclude(path)
    /\ inclusion_mode => FileMatchesInclude(path)

HeaderCount(path) ==
    Cardinality({i \in DOMAIN HeaderPaths : HeaderPaths[i] = path})

\* reading the file or writing its entry raised
ReadOrWriteFailed(path) ==
    \E i \in DOMAIN log : log[i].path = path /\ log[i].res = "error"

(***************************************************************************)
(* C2 as stated.  Every file under the root that matches no exclude rule, *)
(* matches an include rule when inclusion mode is on, and decodes as      *)
(* UTF-8 has exactly one entry in the output of a finished run.           *)
(***************************************************************************)
C2_Original ==
    pc = "Done" =>
        \A f \in AllFiles :
            (PassesRules(f) /\ Decodes(f)) =>
                (HeaderCount(f) = 1 /\ EntriesOf(f) = 1)

(***************************************************************************)
(* C2 as amended.  Every file under the root that lies under no directory *)
(* matching an exclude rule, matches no exclude rule itself, matches an   *)
(* include rule when inclusion mode is on, decodes as UTF-8, and whose    *)
(* read and write raise no error, has exactly one entry in the output of  *)
(* a finished run, headed by '# <its relative path>'.                     *)
(***************************************************************************)
C2_Completeness ==
    pc = "Done" =>
        \A f \in AllFiles :
            (/\ \A dir \in Ancestors(f) : ~DirMatchesExclude(dir, RulePatterns)
             /\ PassesRules(f)
             /\ Decodes(f)
             /\ ~ReadOrWriteFailed(f)) =>
                (HeaderCount(f) = 1 /\ EntriesOf(f) = 1)

\* a finished run with inclusion mode off in which a directory was pruned,
\* a binary file skipped, and the text files of the root and of a
\* subdirectory written, an empty one among them
C2_Witness ==
    /\ pc = "Done"
    /\ ~inclusion_mode
    /\ pruned # {}
    /\ EntriesOf(P_a) = 1
    /\ EntriesOf(P_sa) = 1
    /\ \E f \in AllFiles : fs.stat[f].empty /\ Decodes(f) /\ EntriesOf(f) = 1
    /\ \E i \in DOMAIN log : log[i].res = "nottext"

(***************************************************************************)
(* C3.  No file in the subtree of a directory that matches an exclude     *)
(* rule (a member of excludeDirs, or matched by an exclude pattern) has a *)
(* header in the output, even if an include rule matches the file.        *)
(***************************************************************************)
C3_ExcludedSubtreeAbsent ==
    \A i \in DOMAIN HeaderPaths :
        \A dir \in Ancestors(HeaderPaths[i]) :
            ~DirMatchesExclude(dir, RulePatterns)

\* a run is done in which a directory was pruned although an include rule
\* matches a file below it
C3_Witness ==
    /\ pc = "Done"
    /\ inclusion_mode
    /\ \E dir \in pruned : \E f \in AllFiles :
          /\ dir \in Ancestors(f)
          /\ DirMatchesExclude(dir, RulePatterns)
          /\ FileMatchesInclude(f)
          /\ ~FileMatchesExclude(f)


(***************************************************************************)
(* C4 as stated.  The file opened for writing, start_dir joined with      *)
(* output_filename, is never an entry of the output.                      *)
(***************************************************************************)
C4_OutputNotInItself ==
    \A i \in DOMAIN outfile :
        outfile[i].t = "content" =>
            outfile[i].path # normpath[Join[start_dir, output_filename]]

(***************************************************************************)
(* C5.  In inclusion mode a file is rejected by the inclusion phase       *)
(* exactly when its relative path and bare name are not in includeFiles,  *)
(* its relative path starts with d + '/' for no d of includeDirs, and no  *)
(* pattern of includePatterns matches its relative path or bare name;     *)
(* such a file is counted as skipped, never as excluded, and has no       *)
(* header in the output.  With inclusion mode off no file is rejected so. *)
(***************************************************************************)
C5_InclusionPhase ==
    /\ \A i \in DOMAIN log :
          (log[i].res = "notincluded") <=>
              (inclusion_mode /\ ~FileMatchesInclude(log[i].path))
    /\ \A i \in DOMAIN log :
          log[i].res = "notincluded" => HeaderCount(log[i].path) = 0
    /\ excluded_count =
          Cardinality({i \in DOMAIN log : log[i].res = "excluded"})
    /\ skipped_files_count =
          Cardinality({i \in DOMAIN log : log[i].res # "written"})

\* a finished run in inclusion mode: one file failed the inclusion phase
\* although an exclude rule matches it, another passed it and was written
C5_Witness ==
    /\ pc = "Done"
    /\ inclusion_mode
    /\ \E i \in DOMAIN log :
          /\ log[i].res = "notincluded"
          /\ FileMatchesExclude(log[i].path)
    /\ \E i \in DOMAIN log :
          /\ log[i].res = "written"
          /\ FileMatchesInclude(log[i].path)
    /\ skipped_files_count > excluded_count
    /\ excluded_count > 0

(***************************************************************************)
(* C6 as stated.  A subdirectory is pruned exactly when its relative path *)
(* is a member of excludeDirs or a pattern of excludePatterns matches its *)
(* relative path with '/' appended, its relative path, or (the pattern's  *)
(* trailing slashes stripped) its bare name; otherwise it is descended    *)
(* into.                                                                   *)
(***************************************************************************)
\* the subdirectory was met by the walk: its parent was yielded
Evaluated(dir) == ParentKey(dir) \in Range(entered)

C6_Original ==
    \A dir \in AllDirs :
        Evaluated(dir) =>
            (dir \in pruned <=> DirMatchesExclude(dir, Range(exclude_patterns)))

(***************************************************************************)
(* C6 as amended.  A subdirectory is pruned exactly when its relative     *)
(* path is a member of excludeDirs or a pattern of the combined exclude   *)
(* list (excludePatterns, the entries of excludeFiles with the summary    *)
(* file's path among them, and each entry of excludeDirs with '/'         *)
(* appended) matches its relative path with '/' appended, its relative    *)
(* path, or (trailing slashes stripped) its bare name; every other        *)
(* subdirectory is descended into, whatever the inclusion mode.           *)
(***************************************************************************)
C6_DescentDecision ==
    \A dir \in AllDirs :
        (opened /\ Evaluated(dir)) =>
            /\ dir \in pruned <=> DirMatchesExclude(dir, RulePatterns)
            /\ WalkOver => (dir \notin pruned <=> dir \in Range(entered))

\* a finished run in inclusion mode: one directory was pruned, and another,
\* below which no file matches an include rule, was descended into
C6_Witness ==
    /\ pc = "Done"
    /\ inclusion_mode
    /\ include_dirs \cup include_files \cup Range(include_patterns) # {}
    /\ pruned # {}
    /\ \E dir \in Range(entered) \ {<<>>} :
          \A f \in AllFiles : dir \in Ancestors(f) => ~FileMatchesInclude(f)

(***************************************************************************)
(* C7 as stated.  The run is Failed only when the output could not be     *)
(* opened, and then no input file has been read, written or counted.      *)
(***************************************************************************)
NothingProcessed ==
    /\ log = <<>>
    /\ outfile = <<>>
    /\ entered = <<>>
    /\ pruned = {}
    /\ skipped_dirs_count = 0
    /\ skipped_files_count = 0
    /\ processed_files_count = 0
    /\ considered_by_include_count = 0
    /\ excluded_count = 0

C7_Original == pc = "Failed" => (~opened /\ NothingProcessed)

(***************************************************************************)
(* C7 as amended.  The run is Failed only when the output could not be    *)
(* opened, and then no input file has been read, written or counted, or   *)
(* when closing the opened output at the end of the walk raised, and then *)
(* every file of every directory walked has been evaluated; a run whose   *)
(* output was opened never fails while it walks.                          *)
(***************************************************************************)
\* the files os.walk has enumerated in the directories yielded so far
RECURSIVE EnumeratedIn(_)
EnumeratedIn(dirs) ==
    IF dirs = <<>> THEN 0
    ELSE Len(fs.list[dirs[1]].files) + EnumeratedIn(Tail(dirs))

C7_FailedAtOpenOrClose ==
    pc = "Failed" =>
        IF opened
        THEN /\ stack = <<>>
             /\ filenames = <<>>
             /\ Len(log) = EnumeratedIn(entered)
        ELSE NothingProcessed

\* the output was opened, files were written, and the run is Failed
C7_Witness ==
    /\ pc = "Failed"
    /\ opened
    /\ processed_files_count > 0
    /\ skipped_files_count > 0

(***************************************************************************)
(* C8 as stated.  Once a file has failed (it was found binary or          *)
(* unreadable, or its read or write raised), the run eventually reaches   *)
(* Done.                                                                   *)
(***************************************************************************)
FileFailed(e) == e.res \in {"error", "nottext"}

FailureStep ==
    /\ Len(log') = Len(log) + 1
    /\ FileFailed(log'[Len(log')])

C9_OutputWellFormed ==
    /\ Len(outfile) = 3 * processed_files_count
    /\ \A k \in 0..(processed_files_count - 1) :
          /\ outfile[3 * k + 1].t = "header"
          /\ outfile[3 * k + 2].t = "content"
          /\ outfile[3 * k + 3] = Separator
    /\ \A i \in DOMAIN log :
          log[i].res # "written" => HeaderCount(log[i].path) = 0

(***************************************************************************)
(* C10.  Entries are written in top-down depth-first order: the files of  *)
(* a directory in enumeration order and before those of its descendants,  *)
(* the whole subtree of one subdirectory before the next sibling's.       *)
(***************************************************************************)
\* every file of the subtree of directory key, in that order
RECURSIVE PreOrder(_)
RECURSIVE PreOrderOf(_, _)
PreOrderOf(key, dirs) ==
    IF dirs = <<>> THEN <<>>
    ELSE PreOrder(Join[key, dirs[1]]) \o PreOrderOf(key, Tail(dirs))

PreOrder(key) ==
    [i \in DOMAIN fs.list[key].files |-> Join[key, fs.list[key].files[i]]]
    \o PreOrderOf(key, fs.list[key].dirs)

IndexIn(seq, x) == CHOOSE k \in DOMAIN seq : seq[k] = x

C10_WriteOrder ==
    \A i, j \in DOMAIN HeaderPaths :
        i < j =>
            IndexIn(PreOrder(<<>>), HeaderPaths[i])
                < IndexIn(PreOrder(<<>>), HeaderPaths[j])

\* a finished run that wrote files of the root, of a subdirectory, of that
\* subdirectory's subdirectory and of the next sibling
C10_Witness ==
    /\ pc = "Done"
    /\ {P_a, P_sa, P_suc, P_td} \subseteq Range(HeaderPaths)

(***************************************************************************)
(* C11 as stated.  The text check passes a file exactly when it is a      *)
(* regular readable file that is empty or whose leading chunk decodes as  *)
(* UTF-8: a file that is special, permission-denied or vanished is        *)
(* skipped by the text check, and the writer never opens it for reading.  *)
(***************************************************************************)
\* the file is a regular file that open() can read
ReadableRegular(st) == st.kind = "regular"

\* the writer reached line 231 for the file of log entry e
OpenedByWriter(e) == e.res \in {"written", "error"}

C11_TextCheck ==
    \A i \in DOMAIN log :
        LET st == fs.stat[log[i].path]
        IN /\ OpenedByWriter(log[i]) =>
                 (ReadableRegular(st) /\ (st.empty \/ st.utf8))
           /\ log[i].res = "nottext" =>
                 ~(ReadableRegular(st) /\ (st.empty \/ st.utf8))

(***************************************************************************)
(* C13 as stated.  When create_summary has returned, in Done or in        *)
(* Failed, the caller's include_dirs, include_files, include_patterns,    *)
(* exclude_dirs, exclude_files and exclude_patterns hold exactly the      *)
(* elements they held when the call was made.                             *)
(***************************************************************************)
\* the caller's six collections as they are now
CallerCollections ==
    [include_dirs |-> include_dirs,
     include_files |-> include_files,
     include_patterns |-> include_patterns,
     exclude_dirs |-> exclude_dirs,
     exclude_files |-> caller_exclude_files,
     exclude_patterns |-> exclude_patterns]

C13_ConfigReadOnly ==
    pc \in {"Done", "Failed"} => CallerCollections = given

(***************************************************************************)
(* C14.  Counter conservation: at every point of the walk, every file     *)
(* enumerated so far in a directory the walk has visited has been counted *)
(* exactly once, as processed or as skipped; excluded_count never exceeds *)
(* skipped_files_count; and in inclusion mode considered_by_include_count *)
(* is the number of those files that an include rule matches.             *)
(***************************************************************************)
\* the files the file loop has gone through so far: those of the
\* directories yielded, less those of the current directory still pending
FilesEnumerated == EnumeratedIn(entered) - Len(filenames)

C14_CounterConservation ==
    /\ processed_files_count + skipped_files_count = FilesEnumerated
    /\ Len(log) = FilesEnumerated
    /\ processed_files_count =
          Cardinality({i \in DOMAIN log : log[i].res = "written"})
    /\ excluded_count <= skipped_files_count
    /\ inclusion_mode =>
          considered_by_include_count =
              Cardinality({i \in DOMAIN log : FileMatchesInclude(log[i].path)})

\* a finished run in inclusion mode in which files were written, excluded
\* and rejected by the inclusion phase
C14_Witness ==
    /\ pc = "Done"
    /\ inclusion_mode
    /\ processed_files_count > 0
    /\ excluded_count > 0
    /\ skipped_files_count > excluded_count
    /\ considered_by_include_count > excluded_count
    /\ considered_by_include_count < FilesEnumerated

(***************************************************************************)
(* The basic create_summary of src/pathsum.py, run in the same tree from  *)
(* '.' with the exclude_dirs and exclude_files the caller passed.  It has *)
(* no input but the tree, so its run is computed: what it decides for     *)
(* each directory and file, in the order of its walk.                     *)
(***************************************************************************)
\* pathsum.py line 51
Basic_normalized_exclude_dirs == {normpath[d] : d \in given.exclude_dirs}

\* pathsum.py line 52-55
Basic_normalized_exclude_files ==
    {normpath[f] : f \in given.exclude_files} \cup {normpath[output_filename]}

\* pathsum.py line 69: dirpath that os.walk('.') yields for directory key
Basic_DirPath(key) == IF key = <<>> THEN <<".">> ELSE Join[<<".">>, key]

\* pathsum.py line 75-80: the subdirectory is removed from dirnames
Basic_DirIsExcluded(current_check_dir) ==
    \E excluded_dir \in Basic_normalized_exclude_dirs :
        \/ current_check_dir = excluded_dir
        \/ StartsWith[current_check_dir, excluded_dir \o <<Sep>>]

\* pathsum.py line 75: current_check_dir
Basic_CheckDir(key, dirname) == normpath[Join[Basic_DirPath(key), dirname]]

\* pathsum.py line 93-94: normalized_file_path
Basic_FilePath(key, filename) == normpath[Join[Basic_DirPath(key), filename]]

\* pathsum.py line 100
Basic_FileIsExcluded(normalized_file_path, filename) ==
    \/ normalized_file_path \in Basic_normalized_exclude_files
    \/ filename \in Basic_normalized_exclude_files

\* pathsum.py line 21-36: is_likely_text_file opens the file and reads its
\* leading chunk; opens says whether open() of a special file succeeds
Basic_is_likely_text_file(st, opens) ==
    IF st.kind \in {"vanished", "denied"} THEN FALSE    \* open raises
    ELSE IF st.kind = "special" THEN opens /\ (st.empty \/ st.utf8)
    ELSE st.empty \/ st.utf8                            \* read(1024), strict

\* the files whose leading chunk decodes as UTF-8 while their content
\* further on may not: the full version, which reads with errors='ignore',
\* never tells the difference, so every choice of them has to be considered
PartialChoices ==
    SUBSET {f \in DOMAIN Tree.stat :
               /\ Tree.stat[f].kind = "regular"
               /\ ~Tree.stat[f].empty
               /\ Tree.stat[f].utf8}

\* pathsum.py line 109-110: open() and read() of the whole file, strict;
\* is_partial says the content does not decode past its leading chunk
Basic_ReadSucceeds(st, opens, is_partial) ==
    IF st.kind = "special" THEN opens /\ (st.empty \/ st.utf8)
    ELSE st.kind = "regular" /\ (st.empty \/ (st.utf8 /\ ~is_partial))

\* open() of the special file at path succeeded wherever this run tried it
SpecialOpens(path) ==
    ~\E i \in DOMAIN log : log[i].path = path /\ log[i].res = "error"

\* pathsum.py line 92-125: the branch the basic version takes for one file
Basic_FileResult(key, filename, partial) ==
    LET normalized_file_path == Basic_FilePath(key, filename)
        st == fs.stat[normalized_file_path]
        opens == SpecialOpens(normalized_file_path)
    IN [path |-> normalize_path[relpath[normalized_file_path, <<".">>]],
        name |-> filename,
        res |-> IF Basic_FileIsExcluded(normalized_file_path, filename)
                THEN "excluded"
                ELSE IF ~Basic_is_likely_text_file(st, opens) THEN "nottext"
                ELSE IF Basic_ReadSucceeds(st, opens,
                                           normalized_file_path \in partial)
                THEN "written"
                ELSE "error"]

\* pathsum.py line 73-88: the subdirectories of key removed, and kept
Basic_DirsToRemove(key) ==
    {dirname \in Range(fs.list[key].dirs) :
        Basic_DirIsExcluded(Basic_CheckDir(key, dirname))}

Basic_KeptDirs(key) ==
    SelectSeq(fs.list[key].dirs, LAMBDA d : d \notin Basic_DirsToRemove(key))

\* pathsum.py line 69-125: the branches taken, file by file, by the walk
\* of the directories pending, top-down
RECURSIVE Basic_Walk(_, _)
Basic_Walk(pending, partial) ==
    IF pending = <<>> THEN <<>>
    ELSE LET key == Head(pending)
             kept == Basic_KeptDirs(key)
         IN [i \in DOMAIN fs.list[key].files |->
                Basic_FileResult(key, fs.list[key].files[i], partial)]
            \o Basic_Walk([i \in DOMAIN kept |-> Basic_CheckDir(key, kept[i])]
                          \o Tail(pending), partial)

\* the directories the basic version removes from its walk
RECURSIVE Basic_PrunedIn(_)
Basic_PrunedIn(pending) ==
    IF pending = <<>> THEN {}
    ELSE LET key == Head(pending)
             kept == Basic_KeptDirs(key)
         IN {Basic_CheckDir(key, d) : d \in Basic_DirsToRemove(key)}
            \cup Basic_PrunedIn([i \in DOMAIN kept |->
                                    Basic_CheckDir(key, kept[i])]
                                \o Tail(pending))

Basic_Log(partial) == Basic_Walk(<< <<>> >>, partial)
Basic_Pruned == Basic_PrunedIn(<< <<>> >>)

\* pathsum.py line 116-118: what the basic version writes
RECURSIVE Basic_OutfileOf(_)
Basic_OutfileOf(results) ==
    IF results = <<>> THEN <<>>
    ELSE (IF results[1].res = "written"
          THEN Entry(results[1].path, results[1].path)
          ELSE <<>>)
         \o Basic_OutfileOf(Tail(results))

Basic_Outfile(partial) == Basic_OutfileOf(Basic_Log(partial))

\* the call of the full version that the basic version is compared with:
\* from '.', inclusion mode off, no include rule, no exclude pattern; the
\* run is done and the environment injected no failure
BasicCall ==
    /\ pc = "Done"
    /\ start_dir = <<".">>
    /\ ~inclusion_mode
    /\ include_dirs = {} /\ include_files = {} /\ include_patterns = <<>>
    /\ exclude_patterns = <<>>
    /\ fails = 0

\* the files that went past the filters, in each version
AcceptedFiles(results) ==
    {results[i].path : i \in {k \in DOMAIN results :
                                 results[k].res \notin {"excluded", "notincluded"}}}

\* both versions pruned the same directories, accepted the same files and
\* wrote the same entries
SameAsBasic(partial) ==
    /\ pruned = Basic_Pruned
    /\ AcceptedFiles(log) = AcceptedFiles(Basic_Log(partial))
    /\ outfile = Basic_Outfile(partial)

(***************************************************************************)
(* C12 as stated.  Run from '.' with inclusion mode off and no include    *)
(* rule or exclude pattern, the full create_summary prunes the same       *)
(* directories, accepts the same files and writes the same entries as the *)
(* basic create_summary, whatever exclude_dirs and exclude_files are.     *)
(***************************************************************************)
C12_Original ==
    BasicCall => \A partial \in PartialChoices : SameAsBasic(partial)

(***************************************************************************)
(* C12 as amended.  The same, for exclude_dirs and exclude_files whose    *)
(* entries are normalised paths without glob characters, where no entry   *)
(* of exclude_dirs is the bare name of a directory with another path, no  *)
(* entry of exclude_files and not the output path is the path or the bare *)
(* name of a directory, and every file either version reads is regular or *)
(* empty and decodes as a whole.                                          *)
(***************************************************************************)
GlobChars == {"*", "?", "["}

PlainEntry(e) == normpath[e] = e /\ \A i \in DOMAIN e : e[i] \notin GlobChars

PlainRules ==
    /\ \A e \in given.exclude_dirs \cup given.exclude_files : PlainEntry(e)
    /\ \A e \in given.exclude_dirs : \A d \in AllDirs : BaseName(d) = e => d = e
    /\ \A e \in given.exclude_files \cup {summary_file_norm} :
          \A d \in AllDirs : e # d /\ e # BaseName(d)

\* the files a version opened to read their content
FilesRead(results) ==
    {results[i].path : i \in {k \in DOMAIN results :
                                 results[k].res \in {"written", "error"}}}

SameReading(partial) ==
    \A f \in FilesRead(log) \cup FilesRead(Basic_Log(partial)) :
        /\ fs.stat[f].kind = "regular" \/ fs.stat[f].empty
        /\ f \notin partial

C12_SubsumesBasic ==
    \A partial \in PartialChoices :
        (BasicCall /\ PlainRules /\ SameReading(partial)) => SameAsBasic(partial)

\* a finished comparable run in which a directory was pruned, the output
\* file excluded, a binary file skipped and text files written, one of
\* them a file that would not decode as a whole but lies in the pruned
\* directory
C12_Witness ==
    /\ BasicCall
    /\ PlainRules
    /\ \E partial \in PartialChoices : partial # {} /\ SameReading(partial)
    /\ pruned # {}
    /\ excluded_count > 0
    /\ processed_files_count > 1
    /\ \E i \in DOMAIN log : log[i].res = "nottext"

====
